---- MODULE Spec2Model ----
(***************************************************************************)
(* Listing bridge of object-store-rs (src/list.rs): the four listing       *)
(* operations (list, list_async, list_with_delimiter,                      *)
(* list_with_delimiter_async), the stream materializer they share, the     *)
(* host exclusivity lock released around the blocking wait, and the        *)
(* process-wide background runtime.                                        *)
(*                                                                         *)
(* A call is made by a host thread c.  Object keys are naturals, their     *)
(* numeric order standing for the lexicographic order of the paths; a      *)
(* store of n objects holds the keys 1..n, of which 1..ASize lie under the *)
(* prefix "a/" and the others under "b/".                                  *)
(***************************************************************************)
EXTENDS Naturals, Sequences, FiniteSets

\* ---------------------------------------------------------------- bounds
NumCalls == 2          \* host threads issuing calls concurrently
NumObjects == 3        \* objects in the largest store of the small specifications
MaxCap == 3            \* largest explicit max_items the calls pass
ASize == 2             \* keys 1..ASize are under "a/", the others under "b/"
BigStore == 5000       \* objects in the store of the default-cap specification

Calls == 1 .. NumCalls

\* ------------------------------------------------------------- constants
None == [some |-> FALSE, val |-> 0]       \* Option::None
Some(v) == [some |-> TRUE, val |-> v]     \* Option::Some(v)
NoPrefix == [some |-> FALSE, val |-> ""]  \* Option::None of a prefix
\* a keyword argument as the host passes it: left out, or given a value
Omitted == [given |-> FALSE, value |-> None]
Given(o) == [given |-> TRUE, value |-> o]
BackendErrors == {"Network", "PermissionDenied"}
BridgeInitError == "BridgeInitError"

list_max_items_default == 2000
\* a default of list_async that differs from the one of list
list_async_max_items_other == 2 * 500
list_async_max_items_default == 2000

VARIABLES
  store,       \* the Store's contents: it holds the keys 1..store
  gil,         \* holder of the host exclusivity lock: 0 (free) or a thread
  runtime,     \* the process-wide runtime slot: 0 (empty) or an instance id
  created,     \* number of runtime instances ever constructed
  pc,          \* pc[c]: position of call c
  op,          \* op[c]: the operation and its arguments as passed
  max_items,   \* max_items[c]: the cap the materializer receives
  rt,          \* rt[c]: the runtime instance a blocking call obtained (0: none)
  source,      \* source[c]: the lazy stream the Store gave call c
  pos,         \* pos[c]: items of the stream already yielded
  pulls,       \* pulls[c]: stream.next() requests made by call c
  calls,       \* calls[c]: the Store methods call c invoked, in order
  result,      \* result[c]: the materializer's accumulator
  ret,         \* ret[c]: what the core routine returned
  cancelled,   \* cancelled[c]: the host cancelled the future of call c
  reply,       \* reply[c]: what Store.list_with_delimiter answered call c
  init_failed  \* a construction of the runtime has failed

vars == <<store, gil, runtime, created, pc, op, max_items, rt, source, pos,
          pulls, calls, result, ret, cancelled, reply, init_failed>>

\* ------------------------------------------------------------ data model
Ok(v) == [ok |-> TRUE, val |-> v]
Err(e) == [ok |-> FALSE, val |-> e]

RetOk(v) == [tag |-> "Ok", val |-> v]
RetErr(e) == [tag |-> "Err", val |-> e]
NoRet == [tag |-> "None", val |-> <<>>]

NoOp == [kind |-> "none", prefix |-> NoPrefix, offset |-> None, max_items |-> Omitted]

\* object_store::ObjectMeta of the object with key k, named by its location
ObjectMeta(k) == k

\* the fields of an ObjectMeta the host record is built from
location(meta) == meta
last_modified(meta) == meta
size(meta) == meta
e_tag(meta) == Some(meta)
version(meta) == None

\* struct PyObjectMeta(ObjectMeta): a one-field tuple struct
PyObjectMeta(meta) == <<meta>>

\* struct PyListResult(ListResult): a one-field tuple struct
PyListResult(list_result) == <<list_result>>

\* IndexMap::insert on a dict kept as the sequence of its <<key, value>>
\* entries in insertion order: a new key goes to the end, a present key
\* keeps its place and takes the new value
insert(dict, key, value) ==
  IF \E i \in 1 .. Len(dict) : dict[i][1] = key
  THEN [i \in 1 .. Len(dict) |->
          IF dict[i][1] = key THEN <<key, value>> ELSE dict[i]]
  ELSE Append(dict, <<key, value>>)

\* PyObjectMeta::into_py with the location under the key "location"
PyObjectMeta_into_py_location(self) ==
  LET d1 == insert(<<>>, "location", location(self[1]))
      d2 == insert(d1, "last_modified", last_modified(self[1]))
      d3 == insert(d2, "size", size(self[1]))
      d4 == insert(d3, "e_tag", e_tag(self[1]))
  IN insert(d4, "version", version(self[1]))

\* impl IntoPy for PyObjectMeta: the host record of one object
PyObjectMeta_into_py(self) ==
  LET d1 == insert(<<>>, "path", location(self[1]))
      d2 == insert(d1, "last_modified", last_modified(self[1]))
      d3 == insert(d2, "size", size(self[1]))
      d4 == insert(d3, "e_tag", e_tag(self[1]))
  IN insert(d4, "version", version(self[1]))

\* impl IntoPy for PyListResult: the host record of a grouped listing
PyListResult_into_py(self) ==
  LET d1 == insert(<<>>, "common_prefixes", self[1].common_prefixes)
  IN insert(d1, "objects",
            [i \in 1 .. Len(self[1].objects) |->
               PyObjectMeta_into_py(PyObjectMeta(self[1].objects[i]))])

\* no answer of Store.list_with_delimiter yet
NoReply == Err("none")

Min(a, b) == IF a <= b THEN a ELSE b
Max(a, b) == IF a >= b THEN a ELSE b

\* ------------------------------------------------- the Store collaborator
\* a run of consecutive keys lo..hi (empty when hi < lo), in enumeration order
KeyRange(lo, hi) == [lo |-> lo, len |-> IF hi >= lo THEN (hi + 1) - lo ELSE 0]

\* the keys of a store of n objects that lie under the prefix
PrefixRange(n, prefix) ==
  IF ~prefix.some THEN [lo |-> 1, hi |-> n]
  ELSE IF prefix.val = "a/" THEN [lo |-> 1, hi |-> Min(n, ASize)]
  ELSE [lo |-> ASize + 1, hi |-> n]

\* Store.list(prefix): the keys under the prefix, in enumeration order
Store_list(n, prefix) ==
  KeyRange(PrefixRange(n, prefix).lo, PrefixRange(n, prefix).hi)

\* Store.list_with_offset(prefix, offset): keys <= offset are excluded
Store_list_with_offset(n, prefix, offset) ==
  KeyRange(Max(PrefixRange(n, prefix).lo, offset + 1), PrefixRange(n, prefix).hi)

\* Store.list_with_delimiter(prefix): one grouped ListResult
Store_list_with_delimiter(n, prefix) ==
  IF ~prefix.some
  THEN [common_prefixes |->
          SelectSeq(<<"a/", "b/">>,
                    LAMBDA p : Store_list(n, Some(p)).len > 0),
        objects |-> <<>>]
  ELSE [common_prefixes |-> <<>>,
        objects |-> [i \in 1 .. Store_list(n, prefix).len |->
                       ObjectMeta(Store_list(n, prefix).lo + i - 1)]]

NoFail == [at |-> 0, err |-> "none"]

\* the answer of Store.list_with_delimiter(prefix): the ListResult, or the
\* error of a failed backend call
Store_reply(n, prefix, fail) ==
  IF fail = NoFail THEN Ok(Store_list_with_delimiter(n, prefix))
  ELSE Err(fail.err)

\* where and how a backend stream may fail: after `at` successful items
Fails(n) == {NoFail} \cup [at : 0 .. n, err : BackendErrors]

\* the lazy stream a Store call returns: the metadata of the keys, in order,
\* cut by a failure
StreamOf(keys, fail) == [lo |-> keys.lo, len |-> keys.len, fail |-> fail]

NoStream == StreamOf(KeyRange(1, 0), NoFail)

\* the number of items the stream yields before it ends
StreamLen(st) == IF st.fail = NoFail THEN st.len ELSE st.fail.at + 1

\* the i-th item the stream yields
StreamItem(st, i) ==
  IF st.fail # NoFail /\ i = st.fail.at + 1
  THEN Err(st.fail.err)
  ELSE Ok(ObjectMeta((st.lo + i) - 1))

\* ------------------------------------------------------ runtime (bridge)
\* crate::runtime::get_runtime: the once-initialised slot.  `built` says
\* whether constructing the runtime succeeds when the slot is empty.
get_runtime(slot, n, built) ==
  IF slot # 0 THEN [runtime |-> slot, created |-> n, res |-> slot]
  ELSE IF built THEN [runtime |-> n + 1, created |-> n + 1, res |-> n + 1]
  ELSE [runtime |-> 0, created |-> n, res |-> 0]

\* obtain_runtime building a runtime of its own for every call
obtain_runtime_new(slot, n, built) ==
  IF built THEN [runtime |-> n + 1, created |-> n + 1, res |-> n + 1]
  ELSE [runtime |-> slot, created |-> n, res |-> 0]

\* `let runtime = get_runtime(py)?` of list and list_with_delimiter
obtain_runtime(slot, n, built) == get_runtime(slot, n, built)

\* ---------------------------------------------------- stream materializer
\* on_item with the error of a failed item dropped: the items so far are
\* returned as a success
on_item_swallow_error(acc, object, cap) ==
  IF ~object.ok
  THEN [done |-> TRUE, ret |-> RetOk(acc), result |-> acc]
  ELSE LET r == Append(acc, PyObjectMeta(object.val)) IN
       IF cap.some /\ Len(r) >= cap.val
       THEN [done |-> TRUE, ret |-> RetOk(r), result |-> r]
       ELSE [done |-> FALSE, ret |-> NoRet, result |-> r]

\* on_item with the cap test `>` in place of `>=`
on_item_cap_gt(acc, object, cap) ==
  IF ~object.ok
  THEN [done |-> TRUE, ret |-> RetErr(object.val), result |-> <<>>]
  ELSE LET r == Append(acc, PyObjectMeta(object.val)) IN
       IF cap.some /\ Len(r) > cap.val
       THEN [done |-> TRUE, ret |-> RetOk(r), result |-> r]
       ELSE [done |-> FALSE, ret |-> NoRet, result |-> r]

\* on_item with the item inserted at the front instead of pushed
on_item_prepend(acc, object, cap) ==
  IF ~object.ok
  THEN [done |-> TRUE, ret |-> RetErr(object.val), result |-> <<>>]
  ELSE LET r == <<PyObjectMeta(object.val)>> \o acc IN
       IF cap.some /\ Len(r) >= cap.val
       THEN [done |-> TRUE, ret |-> RetOk(r), result |-> r]
       ELSE [done |-> FALSE, ret |-> NoRet, result |-> r]

\* on_item with an absent cap read as `max_items.unwrap_or(1)`
on_item_unwrap_or(acc, object, cap) ==
  IF ~object.ok
  THEN [done |-> TRUE, ret |-> RetErr(object.val), result |-> <<>>]
  ELSE LET r == Append(acc, PyObjectMeta(object.val)) IN
       IF Len(r) >= (IF cap.some THEN cap.val ELSE 1)
       THEN [done |-> TRUE, ret |-> RetOk(r), result |-> r]
       ELSE [done |-> FALSE, ret |-> NoRet, result |-> r]

\* on_item testing the cap on the items so far, before the push: the cap
\* is noticed one pull late
on_item_cap_before_push(acc, object, cap) ==
  IF ~object.ok
  THEN [done |-> TRUE, ret |-> RetErr(object.val), result |-> <<>>]
  ELSE IF cap.some /\ Len(acc) >= cap.val
       THEN [done |-> TRUE, ret |-> RetOk(acc), result |-> acc]
       ELSE [done |-> FALSE, ret |-> NoRet,
             result |-> Append(acc, PyObjectMeta(object.val))]

\* One turn of the loop body of materialize_list_stream on a pulled item:
\* `result.push(PyObjectMeta(object?))`, then the cap test.
on_item(acc, object, cap) ==
  IF ~object.ok
  THEN [done |-> TRUE, ret |-> RetErr(object.val), result |-> <<>>]
  ELSE LET r == Append(acc, PyObjectMeta(object.val)) IN
       IF cap.some /\ Len(r) >= cap.val
       THEN [done |-> TRUE, ret |-> RetOk(r), result |-> r]
       ELSE [done |-> FALSE, ret |-> NoRet, result |-> r]

\* the stream ended (`stream.next()` gave None): `Ok(result)`
on_end(acc) == [done |-> TRUE, ret |-> RetOk(acc), result |-> acc]

\* the max_items a call passes on: the signature's default when omitted
list_max_items(arg) ==
  IF arg.given THEN arg.value ELSE Some(list_max_items_default)

\* list_async_max_items dropping the argument: the future never caps
list_async_max_items_uncapped(arg) == None

list_async_max_items(arg) ==
  IF arg.given THEN arg.value ELSE Some(list_async_max_items_default)

\* try_runtime going on to allow_threads whether or not a runtime was got
try_runtime_ignore_error(res) == [pc |-> "allow_threads", ret |-> NoRet]

\* the `?` after get_runtime(py): without a runtime the call returns the
\* error at once, with one it goes on to allow_threads
try_runtime(res) ==
  IF res = 0
  THEN [pc |-> "returned", ret |-> RetErr(BridgeInitError)]
  ELSE [pc |-> "allow_threads", ret |-> NoRet]

\* the stream source list selects: list_with_offset when an offset was
\* given, list otherwise
list_stream(n, prefix, offset) ==
  IF offset.some
  THEN [call |-> "list_with_offset",
        keys |-> Store_list_with_offset(n, prefix, offset.val)]
  ELSE [call |-> "list", keys |-> Store_list(n, prefix)]

\* list_async_stream never passing the offset on: always Store.list
list_async_stream_no_offset(n, prefix, offset) ==
  [call |-> "list", keys |-> Store_list(n, prefix)]

\* the stream source list_async selects, inside its future
list_async_stream(n, prefix, offset) ==
  IF offset.some
  THEN [call |-> "list_with_offset",
        keys |-> Store_list_with_offset(n, prefix, offset.val)]
  ELSE [call |-> "list", keys |-> Store_list(n, prefix)]

\* list_with_delimiter_materialize keeping the objects of the answer only
list_with_delimiter_materialize_objects_only(answer) ==
  IF answer.ok
  THEN RetOk(PyListResult([common_prefixes |-> <<>>,
                           objects |-> answer.val.objects]))
  ELSE RetErr(answer.val)

\* list_with_delimiter_materialize falling back to an empty listing when
\* the Store fails
list_with_delimiter_materialize_or_default(answer) ==
  IF answer.ok THEN RetOk(PyListResult(answer.val))
  ELSE RetOk(PyListResult([common_prefixes |-> <<>>, objects |-> <<>>]))

\* list_with_delimiter_materialize on the answer of the Store:
\* `store.list_with_delimiter(prefix).await?`, then `Ok(PyListResult(..))`
list_with_delimiter_materialize(answer) ==
  IF answer.ok THEN RetOk(PyListResult(answer.val)) ELSE RetErr(answer.val)

Blocking(c) == op[c].kind \in {"list", "list_with_delimiter"}
Async(c) == op[c].kind \in {"list_async", "list_with_delimiter_async"}
Flat(c) == op[c].kind \in {"list", "list_async"}

\* the async block running as a task of its own, detached from the future
future_detached(c) == TRUE

\* materialize_list_stream run on its own from the point where i items of
\* the stream have been pulled and acc accumulated: what it returns
RECURSIVE materialize_list_stream(_, _, _, _)
materialize_list_stream(stream, cap, i, acc) ==
  IF i >= StreamLen(stream) THEN on_end(acc).ret
  ELSE LET s == on_item(acc, StreamItem(stream, i + 1), cap) IN
         IF s.done THEN s.ret
         ELSE materialize_list_stream(stream, cap, i + 1, s.result)

\* the future handed to future_into_py owns the whole async block: it makes
\* progress only while the host has not dropped it
future_alive(c) == ~cancelled[c]

\* the core routine of call c can take a step
Running(c) == Blocking(c) \/ (Async(c) /\ future_alive(c))

\* ------------------------------------------------------------------ Init
InitCalls ==
  /\ gil = 0
  /\ runtime = 0
  /\ created = 0
  /\ pc = [c \in Calls |-> "idle"]
  /\ op = [c \in Calls |-> NoOp]
  /\ max_items = [c \in Calls |-> None]
  /\ rt = [c \in Calls |-> 0]
  /\ source = [c \in Calls |-> NoStream]
  /\ pos = [c \in Calls |-> 0]
  /\ pulls = [c \in Calls |-> 0]
  /\ calls = [c \in Calls |-> <<>>]
  /\ result = [c \in Calls |-> <<>>]
  /\ ret = [c \in Calls |-> NoRet]
  /\ cancelled = [c \in Calls |-> FALSE]
  /\ reply = [c \in Calls |-> NoReply]
  /\ init_failed = FALSE

Init ==
  /\ store = NumObjects
  /\ InitCalls

\* --------------------------------------------------------------- actions
\* list, up to `py.allow_threads`: the thread holds the lock and obtains
\* the runtime; a runtime that cannot be built fails the call at once.
list(c, prefix, offset, arg, built) ==
  /\ pc[c] = "idle"
  /\ gil = 0
  /\ LET g == obtain_runtime(runtime, created, built) IN
       /\ gil' = c
       /\ runtime' = g.runtime
       /\ created' = g.created
       /\ rt' = [rt EXCEPT ![c] = g.res]
       /\ init_failed' = (init_failed \/ g.res = 0)
       /\ pc' = [pc EXCEPT ![c] = try_runtime(g.res).pc]
       /\ ret' = [ret EXCEPT ![c] = try_runtime(g.res).ret]
  /\ op' = [op EXCEPT ![c] = [kind |-> "list", prefix |-> prefix,
                              offset |-> offset, max_items |-> arg]]
  /\ max_items' = [max_items EXCEPT ![c] = list_max_items(arg)]
  /\ UNCHANGED <<store, reply, source, pos, pulls, calls, result, cancelled>>

\* list_async obtaining the shared runtime, as the blocking entry does
list_async_on_runtime(c, prefix, offset, arg) ==
  /\ pc[c] = "idle"
  /\ gil = 0
  /\ LET g == obtain_runtime(runtime, created, TRUE) IN
       /\ runtime' = g.runtime
       /\ created' = g.created
       /\ rt' = [rt EXCEPT ![c] = g.res]
  /\ op' = [op EXCEPT ![c] = [kind |-> "list_async", prefix |-> prefix,
                              offset |-> offset, max_items |-> arg]]
  /\ max_items' = [max_items EXCEPT ![c] = list_async_max_items(arg)]
  /\ pc' = [pc EXCEPT ![c] = "select"]
  /\ UNCHANGED <<store, reply, init_failed, gil, source, pos, pulls, calls,
                 result, ret, cancelled>>

\* list_async: builds the future and hands it to the host loop; nothing of
\* the async block has run yet.
list_async(c, prefix, offset, arg) ==
  /\ pc[c] = "idle"
  /\ gil = 0
  /\ op' = [op EXCEPT ![c] = [kind |-> "list_async", prefix |-> prefix,
                              offset |-> offset, max_items |-> arg]]
  /\ max_items' = [max_items EXCEPT ![c] = list_async_max_items(arg)]
  /\ pc' = [pc EXCEPT ![c] = "select"]
  /\ UNCHANGED <<store, reply, init_failed, gil, runtime, created, rt, source,
                 pos, pulls, calls, result, ret, cancelled>>

\* list_with_delimiter, up to `py.allow_threads`
list_with_delimiter(c, prefix, built) ==
  /\ pc[c] = "idle"
  /\ gil = 0
  /\ LET g == obtain_runtime(runtime, created, built) IN
       /\ gil' = c
       /\ runtime' = g.runtime
       /\ created' = g.created
       /\ rt' = [rt EXCEPT ![c] = g.res]
       /\ init_failed' = (init_failed \/ g.res = 0)
       /\ pc' = [pc EXCEPT ![c] = try_runtime(g.res).pc]
       /\ ret' = [ret EXCEPT ![c] = try_runtime(g.res).ret]
  /\ op' = [op EXCEPT ![c] = [kind |-> "list_with_delimiter", prefix |-> prefix,
                              offset |-> None, max_items |-> Omitted]]
  /\ UNCHANGED <<store, reply, max_items, source, pos, pulls, calls, result,
                 cancelled>>

\* list_with_delimiter_async: builds the future
list_with_delimiter_async(c, prefix) ==
  /\ pc[c] = "idle"
  /\ gil = 0
  /\ op' = [op EXCEPT ![c] = [kind |-> "list_with_delimiter_async",
                              prefix |-> prefix, offset |-> None,
                              max_items |-> Omitted]]
  /\ pc' = [pc EXCEPT ![c] = "delim_call"]
  /\ UNCHANGED <<store, reply, init_failed, gil, runtime, created, max_items,
                 rt, source, pos, pulls, calls, result, ret, cancelled>>

\* allow_threads_enter running the closure without giving up the lock
allow_threads_enter_locked(c) ==
  /\ pc[c] = "allow_threads"
  /\ pc' = [pc EXCEPT ![c] = IF Flat(c) THEN "select" ELSE "delim_call"]
  /\ UNCHANGED <<store, reply, init_failed, gil, runtime, created, op,
                 max_items, rt, source, pos, pulls, calls, result, ret,
                 cancelled>>

\* py.allow_threads, entry: the thread gives up the lock and runs the closure
allow_threads_enter(c) ==
  /\ pc[c] = "allow_threads"
  /\ gil' = 0
  /\ pc' = [pc EXCEPT ![c] = IF Flat(c) THEN "select" ELSE "delim_call"]
  /\ UNCHANGED <<store, reply, init_failed, runtime, created, op, max_items,
                 rt, source, pos, pulls, calls, result, ret, cancelled>>

\* the stream source of a flat list: list_with_offset when an offset was
\* given, list otherwise; then materialize_list_stream starts (`vec![]`).
\* F is the set of backend failures the environment may inject.
select_stream(c, F) ==
  /\ pc[c] = "select"
  /\ Flat(c)
  /\ Running(c)
  /\ LET o == op[c]
         sel == IF o.kind = "list"
                THEN list_stream(store, o.prefix, o.offset)
                ELSE list_async_stream(store, o.prefix, o.offset)
     IN /\ \E fail \in Fails(sel.keys.len) \cap F :
             source' = [source EXCEPT ![c] = StreamOf(sel.keys, fail)]
        /\ calls' = [calls EXCEPT ![c] = Append(@, sel.call)]
  /\ pos' = [pos EXCEPT ![c] = 0]
  /\ result' = [result EXCEPT ![c] = <<>>]
  /\ pc' = [pc EXCEPT ![c] = "next"]
  /\ UNCHANGED <<store, reply, init_failed, gil, runtime, created, op,
                 max_items, rt, pulls, ret, cancelled>>

\* materialize_next asking for the item after next as well
materialize_next_prefetch(c) ==
  /\ pc[c] = "next"
  /\ Running(c)
  /\ pulls' = [pulls EXCEPT ![c] = @ + 2]
  /\ pc' = [pc EXCEPT ![c] = "await"]
  /\ UNCHANGED <<store, reply, init_failed, gil, runtime, created, op,
                 max_items, rt, source, pos, calls, result, ret, cancelled>>

\* `stream.next()`: the materializer requests one item and waits for it
materialize_next(c) ==
  /\ pc[c] = "next"
  /\ Running(c)
  /\ pulls' = [pulls EXCEPT ![c] = @ + 1]
  /\ pc' = [pc EXCEPT ![c] = "await"]
  /\ UNCHANGED <<store, reply, init_failed, gil, runtime, created, op,
                 max_items, rt, source, pos, calls, result, ret, cancelled>>

\* the awaited item arrives: the loop body runs on it, or the loop ends
materialize_item(c) ==
  /\ pc[c] = "await"
  /\ Running(c)
  /\ LET more == pos[c] < StreamLen(source[c])
         s == IF more
              THEN on_item(result[c], StreamItem(source[c], pos[c] + 1),
                           max_items[c])
              ELSE on_end(result[c])
     IN /\ pos' = [pos EXCEPT ![c] = IF more THEN @ + 1 ELSE @]
        /\ result' = [result EXCEPT ![c] = s.result]
        /\ ret' = [ret EXCEPT ![c] = s.ret]
        /\ pc' = [pc EXCEPT ![c] = IF s.done THEN "done" ELSE "next"]
  /\ UNCHANGED <<store, reply, init_failed, gil, runtime, created, op,
                 max_items, rt, source, pulls, calls, cancelled>>

\* list_with_delimiter_materialize: the one backend call is issued
delimiter_call(c) ==
  /\ pc[c] = "delim_call"
  /\ Running(c)
  /\ calls' = [calls EXCEPT ![c] = Append(@, "list_with_delimiter")]
  /\ pc' = [pc EXCEPT ![c] = "delim_await"]
  /\ UNCHANGED <<store, reply, init_failed, gil, runtime, created, op,
                 max_items, rt, source, pos, pulls, result, ret, cancelled>>

\* the backend answers: `Ok(PyListResult(list_result))`, or its error
delimiter_reply(c, F) ==
  /\ pc[c] = "delim_await"
  /\ Running(c)
  /\ \E fail \in Fails(0) \cap F :
       LET answer == Store_reply(store, op[c].prefix, fail) IN
         /\ reply' = [reply EXCEPT ![c] = answer]
         /\ ret' = [ret EXCEPT ![c] = list_with_delimiter_materialize(answer)]
  /\ pc' = [pc EXCEPT ![c] = "done"]
  /\ UNCHANGED <<store, init_failed, gil, runtime, created, op, max_items, rt,
                 source, pos, pulls, calls, result, cancelled>>

\* py.allow_threads, exit: block_on returned (Ok or Err); the thread takes
\* the lock back and the call returns
allow_threads_exit(c) ==
  /\ pc[c] = "done"
  /\ Blocking(c)
  /\ gil = 0
  /\ gil' = c
  /\ pc' = [pc EXCEPT ![c] = "returned"]
  /\ UNCHANGED <<store, reply, init_failed, runtime, created, op, max_items,
                 rt, source, pos, pulls, calls, result, ret, cancelled>>

\* the future of a non-blocking call completes: its output is delivered
future_resolve(c) ==
  /\ pc[c] = "done"
  /\ Async(c)
  /\ Running(c)
  /\ gil = 0
  /\ pc' = [pc EXCEPT ![c] = "returned"]
  /\ UNCHANGED <<store, reply, init_failed, gil, runtime, created, op,
                 max_items, rt, source, pos, pulls, calls, result, ret,
                 cancelled>>

\* the host cancels a non-blocking call: the future is dropped where it is
\* suspended (not yet polled, awaiting the backend, or complete and not yet
\* delivered), and its output with it
cancel(c) ==
  /\ Async(c)
  /\ ~cancelled[c]
  /\ pc[c] \in {"select", "await", "delim_call", "delim_await", "done"}
  /\ cancelled' = [cancelled EXCEPT ![c] = TRUE]
  /\ ret' = [ret EXCEPT ![c] = NoRet]
  /\ UNCHANGED <<store, reply, init_failed, gil, runtime, created, pc, op,
                 max_items, rt, source, pos, pulls, calls, result>>

\* host_return dropping the Store with the call's handle to it
host_return_drop_store(c) ==
  /\ pc[c] = "returned" \/ cancelled[c]
  /\ Blocking(c) => gil = c
  /\ gil' = IF Blocking(c) THEN 0 ELSE gil
  /\ pc' = [pc EXCEPT ![c] = "idle"]
  /\ op' = [op EXCEPT ![c] = NoOp]
  /\ max_items' = [max_items EXCEPT ![c] = None]
  /\ rt' = [rt EXCEPT ![c] = 0]
  /\ source' = [source EXCEPT ![c] = NoStream]
  /\ pos' = [pos EXCEPT ![c] = 0]
  /\ pulls' = [pulls EXCEPT ![c] = 0]
  /\ calls' = [calls EXCEPT ![c] = <<>>]
  /\ result' = [result EXCEPT ![c] = <<>>]
  /\ ret' = [ret EXCEPT ![c] = NoRet]
  /\ cancelled' = [cancelled EXCEPT ![c] = FALSE]
  /\ reply' = [reply EXCEPT ![c] = NoReply]
  /\ store' = 0
  /\ UNCHANGED <<init_failed, runtime, created>>

\* the host is done with call c (returned, or cancelled): a blocking
\* caller goes on and eventually yields the lock; the thread may call again
host_return(c) ==
  /\ pc[c] = "returned" \/ cancelled[c]
  /\ Blocking(c) => gil = c
  /\ gil' = IF Blocking(c) THEN 0 ELSE gil
  /\ pc' = [pc EXCEPT ![c] = "idle"]
  /\ op' = [op EXCEPT ![c] = NoOp]
  /\ max_items' = [max_items EXCEPT ![c] = None]
  /\ rt' = [rt EXCEPT ![c] = 0]
  /\ source' = [source EXCEPT ![c] = NoStream]
  /\ pos' = [pos EXCEPT ![c] = 0]
  /\ pulls' = [pulls EXCEPT ![c] = 0]
  /\ calls' = [calls EXCEPT ![c] = <<>>]
  /\ result' = [result EXCEPT ![c] = <<>>]
  /\ ret' = [ret EXCEPT ![c] = NoRet]
  /\ cancelled' = [cancelled EXCEPT ![c] = FALSE]
  /\ reply' = [reply EXCEPT ![c] = NoReply]
  /\ UNCHANGED <<store, init_failed, runtime, created>>

\* -------------------------------------------------------- specifications
\* Concurrent calls of all four operations from NumCalls host threads.
Prefixes == {NoPrefix, Some("a/"), Some("b/")}
ConcOffsets == {None}
ConcArgs == {Given(None), Given(Some(1))}
ConcFails == {NoFail, [at |-> 1, err |-> "Network"]}

Next ==
  \E c \in Calls :
    \/ \E o \in ConcOffsets, a \in ConcArgs, b \in BOOLEAN :
         list(c, NoPrefix, o, a, b)
    \/ \E o \in ConcOffsets, a \in ConcArgs : list_async(c, NoPrefix, o, a)
    \/ \E b \in BOOLEAN : list_with_delimiter(c, NoPrefix, b)
    \/ list_with_delimiter_async(c, NoPrefix)
    \/ allow_threads_enter(c)
    \/ select_stream(c, ConcFails)
    \/ materialize_next(c)
    \/ materialize_item(c)
    \/ delimiter_call(c)
    \/ delimiter_reply(c, ConcFails)
    \/ allow_threads_exit(c)
    \/ future_resolve(c)
    \/ cancel(c)
    \/ host_return(c)

Spec == Init /\ [][Next]_vars

\* One call at a time, over every store, argument and failure.
Stores == 0 .. NumObjects

Offsets == {None} \cup {Some(k) : k \in 0 .. NumObjects}
MaxItemsArgs == {Omitted, Given(None)} \cup {Given(Some(n)) : n \in 0 .. MaxCap}

InitMat ==
  /\ store \in Stores
  /\ InitCalls

NextMat ==
  \/ \E p \in Prefixes, o \in Offsets, a \in MaxItemsArgs, b \in BOOLEAN :
       list(1, p, o, a, b)
  \/ \E p \in Prefixes, o \in Offsets, a \in MaxItemsArgs :
       list_async(1, p, o, a)
  \/ \E p \in Prefixes, b \in BOOLEAN : list_with_delimiter(1, p, b)
  \/ \E p \in Prefixes : list_with_delimiter_async(1, p)
  \/ allow_threads_enter(1)
  \/ select_stream(1, Fails(NumObjects))
  \/ materialize_next(1)
  \/ materialize_item(1)
  \/ delimiter_call(1)
  \/ delimiter_reply(1, Fails(NumObjects))
  \/ allow_threads_exit(1)
  \/ future_resolve(1)
  \/ host_return(1)

SpecMat == InitMat /\ [][NextMat]_vars

\* Flat-list calls that leave max_items out, against a store of BigStore
\* objects.
InitDefault ==
  /\ store = BigStore
  /\ InitCalls

NextDefault ==
  \/ list(1, NoPrefix, None, Omitted, TRUE)
  \/ list_async(1, NoPrefix, None, Omitted)
  \/ allow_threads_enter(1)
  \/ select_stream(1, {NoFail})
  \/ materialize_next(1)
  \/ materialize_item(1)
  \/ allow_threads_exit(1)
  \/ future_resolve(1)
  \/ host_return(1)

SpecDefault == InitDefault /\ [][NextDefault]_vars

\* A blocking call (thread 1) next to the non-blocking call of the same
\* operation (thread 2): both get the same arguments, the same Store and
\* the same backend failure.
Paired(d, kind, prefix, offset, arg) ==
  IF op[d].kind = "none" THEN TRUE
  ELSE /\ op[d].kind = kind
       /\ op[d].prefix = prefix
       /\ op[d].offset = offset
       /\ op[d].max_items = arg

\* the failures the backend may inject into the stream of the call paired
\* with d: the one it injected into the stream of d, if d has one
SameFails(d) ==
  IF calls[d] = <<>> THEN Fails(NumObjects) ELSE {source[d].fail}

\* likewise for the answer to list_with_delimiter
SameReply(d) ==
  IF reply[d].ok THEN {NoFail}
  ELSE IF reply[d].val = NoReply.val THEN Fails(NumObjects)
  ELSE {[at |-> 0, err |-> reply[d].val]}

NextPair ==
  \/ \E p \in Prefixes, o \in Offsets, a \in MaxItemsArgs, b \in BOOLEAN :
       Paired(2, "list_async", p, o, a) /\ list(1, p, o, a, b)
  \/ \E p \in Prefixes, o \in Offsets, a \in MaxItemsArgs :
       Paired(1, "list", p, o, a) /\ list_async(2, p, o, a)
  \/ \E p \in Prefixes, b \in BOOLEAN :
       /\ Paired(2, "list_with_delimiter_async", p, None, Omitted)
       /\ list_with_delimiter(1, p, b)
  \/ \E p \in Prefixes :
       /\ Paired(1, "list_with_delimiter", p, None, Omitted)
       /\ list_with_delimiter_async(2, p)
  \/ allow_threads_enter(1)
  \/ select_stream(1, SameFails(2))
  \/ select_stream(2, SameFails(1))
  \/ \E c \in {1, 2} : materialize_next(c)
  \/ \E c \in {1, 2} : materialize_item(c)
  \/ \E c \in {1, 2} : delimiter_call(c)
  \/ delimiter_reply(1, SameReply(2))
  \/ delimiter_reply(2, SameReply(1))
  \/ allow_threads_exit(1)
  \/ future_resolve(2)
  \/ \E c \in {1, 2} : host_return(c)

SpecPair == InitMat /\ [][NextPair]_vars

\* ------------------------------------------------------------ properties
\* call c is a flat list whose materializer has started
Materializing(c) == Flat(c) /\ calls[c] # <<>>

\* call c is a flat list whose materializer has returned (and, if it is a
\* future, was not dropped before)
Materialized(c) ==
  Materializing(c) /\ pc[c] \in {"done", "returned"} /\ ~cancelled[c]

\* the source of call c: its length and its i-th item
SrcLen(c) == StreamLen(source[c])
Src(c, i) == StreamItem(source[c], i)

\* the source yields successful items only
ErrorFree(c) == \A i \in 1 .. SrcLen(c) : Src(c, i).ok

\* the source is k successful items followed by an error
FailsAfter(c, k) ==
  /\ SrcLen(c) = k + 1
  /\ ~Src(c, k + 1).ok
  /\ \A i \in 1 .. k : Src(c, i).ok

\* v is the first Len(v) items of the source of c, all successful, in
\* yield order
IsPrefixOf(v, c) ==
  /\ Len(v) <= SrcLen(c)
  /\ \A i \in 1 .. Len(v) : Src(c, i).ok /\ v[i] = PyObjectMeta(Src(c, i).val)

\* C1: for every cap max_items = n >= 0 and every error-free source of m
\* items, the flat-list result has length min(n, m).
CapCorrectness ==
  \A c \in Calls :
    (Materialized(c) /\ max_items[c].some /\ ErrorFree(c))
      => /\ ret[c].tag = "Ok"
         /\ Len(ret[c].val) = Min(max_items[c].val, SrcLen(c))

\* C2: a flat-list call with max_items = 0 never pulls an item from the
\* source and returns an empty sequence.
ZeroCapNeverPulls ==
  \A c \in Calls :
    (Materializing(c) /\ max_items[c] = Some(0))
      => /\ pulls[c] = 0
         /\ ret[c].tag = "Ok" => ret[c].val = <<>>

\* C3 as stated, for every cap other than 0 (None, or n >= 1): whenever the
\* source is k successful items followed by an error, the call fails with
\* that error.
FailFastAlways ==
  \A c \in Calls :
    \A k \in 0 .. SrcLen(c) :
      (/\ Materialized(c)
       /\ FailsAfter(c, k)
       /\ max_items[c] # Some(0))
        => ret[c].tag = "Err" /\ ret[c].val = Src(c, k + 1).val

\* C3 as amended: when the source is k successful items followed by an error
\* and the cap does not end the call first (max_items is None or exceeds k),
\* the call fails with that error and carries none of the k items; and no
\* successful result is ever returned once an error item has been pulled.
FailFastAtomicity ==
  \A c \in Calls :
    /\ \A k \in 0 .. SrcLen(c) :
         (/\ Materialized(c)
          /\ FailsAfter(c, k)
          /\ (~max_items[c].some \/ k < max_items[c].val))
           => /\ ret[c].tag = "Err"
              /\ ret[c].val = Src(c, k + 1).val
              /\ result[c] = <<>>
    /\ (Materializing(c) /\ ret[c].tag = "Ok")
         => \A i \in 1 .. pos[c] : Src(c, i).ok

FailFastWitness ==
  \E c \in Calls :
    /\ pc[c] = "returned"
    /\ Materialized(c)
    /\ \E k \in 1 .. SrcLen(c) : FailsAfter(c, k)
    /\ pos[c] = SrcLen(c)
    /\ ret[c].tag = "Err"

\* C4: with a cap n >= 1 the materializer never makes more than n pulls, is
\* no longer pulling once the output has reached the cap, and against a
\* source whose first n items are successes returns those n items after
\* exactly n pulls, so that nothing after position n is requested.
EarlyStopAtCap ==
  \A c \in Calls :
    (Materializing(c) /\ max_items[c].some /\ max_items[c].val >= 1)
      => LET n == max_items[c].val IN
         /\ pulls[c] <= n
         /\ pos[c] <= n
         /\ Len(result[c]) >= n => pc[c] \notin {"next", "await"}
         /\ (/\ Materialized(c)
             /\ SrcLen(c) >= n
             /\ \A i \in 1 .. n : Src(c, i).ok)
              => /\ pulls[c] = n
                 /\ pos[c] = n
                 /\ ret[c].tag = "Ok"
                 /\ Len(ret[c].val) = n

EarlyStopWitness ==
  \E c \in Calls :
    /\ pc[c] = "returned"
    /\ Materialized(c)
    /\ max_items[c].some
    /\ max_items[c].val >= 2
    /\ SrcLen(c) > max_items[c].val
    /\ ~Src(c, max_items[c].val + 1).ok
    /\ pulls[c] = max_items[c].val
    /\ ret[c].tag = "Ok"

\* C5: the accumulator and every successful flat-list result are a prefix
\* of the source's successful items in yield order, each pulled item
\* appended exactly once.
OrderPreserved ==
  \A c \in Calls :
    Materializing(c)
      => /\ IsPrefixOf(result[c], c)
         /\ result[c] # <<>> => Len(result[c]) = pos[c]
         /\ ret[c].tag = "Ok"
              => IsPrefixOf(ret[c].val, c) /\ Len(ret[c].val) = pos[c]

OrderWitness ==
  \E c \in Calls :
    /\ pc[c] = "returned"
    /\ Materialized(c)
    /\ ret[c].tag = "Ok"
    /\ Len(ret[c].val) >= 3

\* C10: with max_items = None the materializer returns successfully only
\* when the source is exhausted (the pull after the last item gave None),
\* and a finite error-free source of m items is returned whole.
AbsentCapUnbounded ==
  \A c \in Calls :
    (Materializing(c) /\ ~max_items[c].some)
      => /\ ret[c].tag = "Ok"
              => /\ pos[c] = SrcLen(c)
                 /\ pulls[c] = SrcLen(c) + 1
                 /\ Len(ret[c].val) = SrcLen(c)
                 /\ IsPrefixOf(ret[c].val, c)
         /\ (Materialized(c) /\ ErrorFree(c)) => ret[c].tag = "Ok"

AbsentCapWitness ==
  \E c \in Calls :
    /\ pc[c] = "returned"
    /\ Materialized(c)
    /\ ~max_items[c].some
    /\ op[c].max_items = Given(None)
    /\ ret[c].tag = "Ok"
    /\ Len(ret[c].val) = NumObjects

\* C9: a flat-list call that leaves max_items out is capped at 2000 in both
\* entry points: against an error-free source of at least 2000 items it
\* returns exactly the first 2000.
DefaultCap ==
  \A c \in Calls :
    (Flat(c) /\ ~op[c].max_items.given)
      => /\ max_items[c] = Some(2000)
         /\ (Materialized(c) /\ ErrorFree(c) /\ SrcLen(c) >= 2000)
              => /\ ret[c].tag = "Ok"
                 /\ Len(ret[c].val) = 2000
                 /\ IsPrefixOf(ret[c].val, c)

DefaultCapWitness ==
  \E c \in Calls :
    /\ pc[c] = "returned"
    /\ op[c].kind = "list_async"
    /\ ~op[c].max_items.given
    /\ SrcLen(c) = BigStore
    /\ ret[c].tag = "Ok"
    /\ Len(ret[c].val) = 2000

\* C6: a blocking call does not hold the host lock from the moment the
\* closure of allow_threads starts until block_on has returned: every Store
\* call and every pull is made without the lock; the thread holds the lock
\* before that window and again whenever the call has returned, with a
\* result or with an error.
LockDiscipline ==
  /\ [](\A c \in Calls :
          Blocking(c)
            => /\ pc[c] \in {"select", "next", "await", "delim_call",
                             "delim_await", "done"} => gil # c
               /\ pc[c] \in {"allow_threads", "returned"} => gil = c)
  /\ [][\A c \in Calls :
          (/\ Blocking(c)
           /\ pc'[c] # "idle"
           /\ (calls'[c] # calls[c] \/ pulls'[c] # pulls[c]))
            => gil # c /\ gil' # c]_vars

LockWitness ==
  \E c \in Calls, d \in Calls :
    /\ c # d
    /\ Blocking(c)
    /\ pc[c] = "await"
    /\ gil = d

\* C7: at most one runtime is ever constructed, every blocking call that
\* obtained a runtime holds the one in the slot, and a filled slot never
\* changes.
SingleRuntime ==
  /\ [](/\ created <= 1
        /\ \A c \in Calls : rt[c] # 0 => runtime # 0 /\ rt[c] = runtime)
  /\ [][runtime # 0 => runtime' = runtime]_vars

SingleRuntimeWitness ==
  \E c \in Calls, d \in Calls :
    /\ c # d
    /\ op[c].kind = "list"
    /\ op[d].kind = "list_with_delimiter"
    /\ pc[c] = "await"
    /\ pc[d] = "delim_await"
    /\ rt[c] = rt[d]
    /\ rt[c] # 0

\* C8: once the host has cancelled a non-blocking call its future makes no
\* further pull or Store call and takes no further step, and no result of
\* it is ever delivered.
CancelStopsPulls ==
  /\ [](\A c \in Calls :
          cancelled[c] => ret[c].tag = "None" /\ pc[c] # "returned")
  /\ [][\A c \in Calls :
          cancelled[c]
            => \/ pc'[c] = "idle"
               \/ /\ pc'[c] = pc[c]
                  /\ pulls'[c] = pulls[c]
                  /\ pos'[c] = pos[c]
                  /\ calls'[c] = calls[c]
                  /\ ret'[c].tag = ret[c].tag]_vars

CancelWitness ==
  \E c \in Calls :
    /\ cancelled[c]
    /\ op[c].kind = "list_async"
    /\ pc[c] = "await"
    /\ pos[c] >= 1
    /\ pulls[c] = pos[c] + 1
    /\ pos[c] < SrcLen(c)

\* the keys the Store method selected for call c enumerates
SelectedKeys(c) ==
  IF op[c].offset.some
  THEN Store_list_with_offset(store, op[c].prefix, op[c].offset.val)
  ELSE Store_list(store, op[c].prefix)

\* C11: list and list_async both take their stream from
\* Store.list_with_offset(prefix, offset) when an offset is given and from
\* Store.list(prefix) when it is not, with one Store call; so with an offset
\* no item accumulated or returned has a key <= the offset.
SourceSelection ==
  \A c \in Calls :
    Materializing(c)
      => /\ calls[c] = IF op[c].offset.some THEN <<"list_with_offset">>
                       ELSE <<"list">>
         /\ source[c].lo = SelectedKeys(c).lo
         /\ source[c].len = SelectedKeys(c).len
         /\ op[c].offset.some
              => /\ \A i \in 1 .. Len(result[c]) :
                      location(result[c][i][1]) > op[c].offset.val
                 /\ ret[c].tag = "Ok"
                      => \A i \in 1 .. Len(ret[c].val) :
                           location(ret[c].val[i][1]) > op[c].offset.val

SourceSelectionWitness ==
  \E c \in Calls :
    /\ op[c].kind = "list_async"
    /\ op[c].offset.some
    /\ op[c].offset.val >= 1
    /\ pc[c] = "returned"
    /\ ret[c].tag = "Ok"
    /\ Len(ret[c].val) >= 1
    /\ calls[c] = <<"list_with_offset">>

\* C12: a blocking call that cannot get the runtime fails with the
\* initialisation error at once, having made no Store call and no pull; the
\* failure is not latched: the slot stays empty, so a later blocking call
\* attempts the construction again (and can succeed).
InitFailureNotLatched ==
  /\ \A c \in Calls :
       (Blocking(c) /\ rt[c] = 0)
         => /\ pc[c] = "returned"
            /\ ret[c].tag = "Err"
            /\ ret[c].val = BridgeInitError
            /\ calls[c] = <<>>
            /\ pulls[c] = 0
            /\ runtime = 0
  /\ \A c \in Calls :
       (ret[c].tag = "Err" /\ ret[c].val = BridgeInitError)
         => Blocking(c) /\ rt[c] = 0 /\ init_failed
  /\ runtime = 0 => created = 0

\* after a failed construction a later blocking call got the runtime and
\* returned a listing
InitFailureWitness ==
  /\ init_failed
  /\ \E c \in Calls :
       /\ op[c].kind = "list"
       /\ rt[c] # 0
       /\ pc[c] = "returned"
       /\ ret[c].tag = "Ok"
       /\ Len(ret[c].val) >= 1

\* call c is one of the two delimiter lists
Delimited(c) == op[c].kind \in {"list_with_delimiter", "list_with_delimiter_async"}

\* the Store has answered the list_with_delimiter call of c
Replied(c) == reply[c].ok \/ reply[c].val # NoReply.val

\* no object of the listing lies under one of its common prefixes
Disjoint(lr) ==
  \A i \in 1 .. Len(lr.objects), j \in 1 .. Len(lr.common_prefixes) :
    LET r == PrefixRange(store, Some(lr.common_prefixes[j])) IN
      ~(r.lo <= location(lr.objects[i]) /\ location(lr.objects[i]) <= r.hi)

\* C13: a delimiter list makes exactly one Store.list_with_delimiter call,
\* never goes through the materializer (no stream, no pull, no cap), and
\* returns the backend's ListResult unchanged or the backend's error; its
\* result is disjoint whenever the backend's is.
DelimiterPassThrough ==
  \A c \in Calls :
    Delimited(c)
      => /\ pulls[c] = 0 /\ pos[c] = 0
         /\ result[c] = <<>> /\ source[c] = NoStream
         /\ calls[c] = IF pc[c] \in {"delim_await", "done"}
                           \/ (pc[c] = "returned" /\ Replied(c))
                        THEN <<"list_with_delimiter">> ELSE <<>>
         /\ (pc[c] \in {"done", "returned"} /\ ~cancelled[c]
               /\ ~(Blocking(c) /\ rt[c] = 0))
              => /\ Replied(c)
                 /\ IF reply[c].ok
                    THEN /\ ret[c].tag = "Ok"
                         /\ ret[c].val = PyListResult(reply[c].val)
                         /\ reply[c].val =
                              Store_list_with_delimiter(store, op[c].prefix)
                         /\ Disjoint(reply[c].val) => Disjoint(ret[c].val[1])
                    ELSE /\ ret[c].tag = "Err"
                         /\ ret[c].val = reply[c].val

DelimiterWitness ==
  \E c \in Calls :
    /\ op[c].kind = "list_with_delimiter"
    /\ pc[c] = "returned"
    /\ ret[c].tag = "Ok"
    /\ Len(ret[c].val[1].common_prefixes) = 2
    /\ calls[c] = <<"list_with_delimiter">>

\* the keys of a host record, in its order
Keys(dict) == [i \in 1 .. Len(dict) |-> dict[i][1]]

\* dict is the host record of the object meta: the five keys in order, the
\* location under "path"
MetaRecord(dict, meta) ==
  /\ Keys(dict) = <<"path", "last_modified", "size", "e_tag", "version">>
  /\ dict[1][2] = location(meta)

\* C14: every metadata record an operation hands to the host has exactly
\* the keys path, last_modified, size, e_tag, version in that order, the
\* location being under path; every listing-result record has the keys
\* common_prefixes, objects in that order.
RecordShape ==
  \A c \in Calls :
    (pc[c] = "returned" /\ ret[c].tag = "Ok")
      => IF Flat(c)
         THEN \A i \in 1 .. Len(ret[c].val) :
                MetaRecord(PyObjectMeta_into_py(ret[c].val[i]),
                           ret[c].val[i][1])
         ELSE LET d == PyListResult_into_py(ret[c].val)
                  lr == ret[c].val[1]
              IN /\ Keys(d) = <<"common_prefixes", "objects">>
                 /\ d[1][2] = lr.common_prefixes
                 /\ Len(d[2][2]) = Len(lr.objects)
                 /\ \A j \in 1 .. Len(lr.objects) :
                      MetaRecord(d[2][2][j], lr.objects[j])

RecordShapeWitness ==
  \E c \in Calls :
    /\ Delimited(c)
    /\ pc[c] = "returned"
    /\ ret[c].tag = "Ok"
    /\ Len(ret[c].val[1].objects) >= 2

\* c is a blocking call and d the non-blocking call of the same operation
\* with the same arguments, and both have returned
PairDone(c, d) ==
  /\ Blocking(c)
  /\ op[d].kind = IF op[c].kind = "list" THEN "list_async"
                  ELSE "list_with_delimiter_async"
  /\ op[d].prefix = op[c].prefix
  /\ op[d].offset = op[c].offset
  /\ op[d].max_items = op[c].max_items
  /\ pc[c] = "returned"
  /\ pc[d] = "returned"
  /\ ~cancelled[d]

\* the same outcome after the same Store calls and pulls
SameOutcome(c, d) ==
  /\ ret[c].tag = ret[d].tag
  /\ ret[c].val = ret[d].val
  /\ calls[c] = calls[d]
  /\ pulls[c] = pulls[d]

\* C15 as stated: for the same Store contents and the same parameters a
\* blocking call and the uncancelled non-blocking call of the same
\* operation have the same outcome and make the same Store calls and pulls.
EquivalenceAlways ==
  \A c, d \in Calls : PairDone(c, d) => SameOutcome(c, d)

\* C15: for the same Store contents and the same parameters, a blocking
\* call that obtained the runtime and the uncancelled non-blocking call of
\* the same operation have the same outcome (the same items, the same
\* listing, or the same error) and make the same Store calls and pulls.
Equivalence ==
  \A c, d \in Calls :
    (PairDone(c, d) /\ rt[c] # 0) => SameOutcome(c, d)

EquivalenceWitness ==
  \E c, d \in Calls :
    /\ PairDone(c, d)
    /\ rt[c] # 0
    /\ op[c].kind = "list"
    /\ op[c].max_items = Omitted
    /\ ret[c].tag = "Ok"
    /\ Len(ret[c].val) >= 2
    /\ Len(ret[d].val) >= 2

\* C16: for a cap n >= 1 and a source of k successful items followed by an
\* error, the flat-list call fails with that error iff k < n; when k >= n
\* it returns the first n items and never pulls the error.  Without a cap
\* it fails for every k.
ErrorVersusCap ==
  \A c \in Calls :
    (Materialized(c) /\ source[c].fail # NoFail
       /\ (max_items[c].some => max_items[c].val >= 1))
      => LET k == source[c].fail.at
             n == max_items[c].val
         IN /\ FailsAfter(c, k)
            /\ IF max_items[c].some /\ k >= n
               THEN /\ ret[c].tag = "Ok"
                    /\ Len(ret[c].val) = n
                    /\ IsPrefixOf(ret[c].val, c)
                    /\ pulls[c] = n
                    /\ pos[c] = n
               ELSE /\ ret[c].tag = "Err"
                    /\ ret[c].val = source[c].fail.err
                    /\ pos[c] = k + 1

\* the cap is reached by the last successful item before the error
ErrorVersusCapWitness ==
  \E c \in Calls :
    /\ Materialized(c)
    /\ pc[c] = "returned"
    /\ source[c].fail # NoFail
    /\ max_items[c].some
    /\ max_items[c].val = source[c].fail.at
    /\ max_items[c].val >= 2
    /\ ret[c].tag = "Ok"

\* C17: with several listing calls interleaved, each call has at most one
\* stream pull in flight (the next pull is made only after the previous
\* item was appended or failed the call), accumulates items of its own
\* stream only, and returns what it would return when run alone.
SequentialPerCall ==
  \A c \in Calls :
    Materializing(c)
      => /\ pos[c] <= pulls[c] /\ pulls[c] <= pos[c] + 1
         /\ pc[c] = "await" => pulls[c] = pos[c] + 1
         /\ pc[c] = "next" => pulls[c] = pos[c] /\ Len(result[c]) = pos[c]
         /\ IsPrefixOf(result[c], c)
         /\ Materialized(c)
              => LET alone == materialize_list_stream(source[c], max_items[c],
                                                      0, <<>>)
                 IN /\ ret[c].tag = alone.tag
                    /\ ret[c].val = alone.val

\* two blocking calls mid-stream at once, on different streams, one of
\* them waiting for an item
SequentialWitness ==
  \E c, d \in Calls :
    /\ c # d
    /\ op[c].kind = "list" /\ op[d].kind = "list"
    /\ pc[c] = "await" /\ pos[c] >= 1
    /\ pc[d] = "next" /\ pos[d] >= 2
    /\ source[c].fail # source[d].fail

\* the kinds of the two non-blocking entries
AsyncKinds == {"list_async", "list_with_delimiter_async"}

\* C18: list_async and list_with_delimiter_async never obtain or create
\* the shared runtime and never release or take the host lock; the entry
\* itself makes no Store call and no pull: stream selection and every pull
\* happen in later steps of the future, while the future is alive.
AsyncOffRuntime ==
  /\ [](\A c \in Calls :
          Async(c)
            => /\ rt[c] = 0
               /\ gil # c
               /\ pc[c] \in {"select", "delim_call"}
                    => calls[c] = <<>> /\ pulls[c] = 0)
  /\ [][\A c \in Calls :
          ((op[c].kind \in AsyncKinds \/ op'[c].kind \in AsyncKinds)
             /\ (pc'[c] # pc[c] \/ cancelled'[c] # cancelled[c]))
            => /\ gil' = gil
               /\ runtime' = runtime
               /\ created' = created
               /\ pc[c] = "idle" => calls'[c] = <<>> /\ pulls'[c] = 0
               /\ (calls'[c] # calls[c] \/ pulls'[c] # pulls[c])
                    => pc'[c] = "idle" \/ ~cancelled[c]]_vars

\* a non-blocking list ran to its end, several pulls, and no runtime was
\* ever built
AsyncOffRuntimeWitness ==
  \E c \in Calls :
    /\ op[c].kind = "list_async"
    /\ pc[c] = "returned"
    /\ ret[c].tag = "Ok"
    /\ pulls[c] >= 2
    /\ created = 0
    /\ runtime = 0

\* the Store has reported an error to call c: the last item pulled from its
\* stream, or the answer to its list_with_delimiter call
StoreErred(c) ==
  IF Flat(c) THEN pos[c] >= 1 /\ ~Src(c, pos[c]).ok
  ELSE Delimited(c) /\ Replied(c) /\ ~reply[c].ok

\* the error the Store reported to call c
StoreError(c) == IF Flat(c) THEN Src(c, pos[c]).val ELSE reply[c].val

\* C19: once the Store has reported an error to a call (on a pull or on the
\* grouped-list call), the call makes no further Store call or pull and
\* returns exactly that error, the first one; it never returns a success
\* in its place.  For all four operations.
NoRetryNoFallback ==
  /\ [](\A c \in Calls :
          (StoreErred(c) /\ ~cancelled[c])
            => /\ pc[c] \in {"done", "returned"}
               /\ ret[c].tag = "Err"
               /\ ret[c].val = StoreError(c)
               /\ Len(calls[c]) = 1
               /\ Flat(c) => /\ pulls[c] = pos[c]
                             /\ \A i \in 1 .. pos[c] - 1 : Src(c, i).ok)
  /\ [][\A c \in Calls :
          StoreErred(c)
            => \/ pc'[c] = "idle"
               \/ /\ calls'[c] = calls[c]
                  /\ pulls'[c] = pulls[c]
                  /\ pos'[c] = pos[c]
                  /\ ret'[c].tag = ret[c].tag]_vars

\* a flat list the backend failed after a successful item
NoRetryWitness ==
  \E c \in Calls :
    /\ pc[c] = "returned"
    /\ op[c].kind = "list_async"
    /\ StoreErred(c)
    /\ pos[c] >= 2
    /\ ret[c].tag = "Err"
    /\ ret[c].val = "PermissionDenied"

\* the listing methods of the Store
StoreMethods == {"list", "list_with_offset", "list_with_delimiter"}

\* C20: across every interleaving of listing calls, successful, failed or
\* cancelled, the core invokes only list, list_with_offset and
\* list_with_delimiter on the Store and leaves the Store as it was.
StoreReadOnly ==
  /\ [](\A c \in Calls :
          \A i \in 1 .. Len(calls[c]) : calls[c][i] \in StoreMethods)
  /\ [][store' = store]_vars

\* a call cancelled in mid-stream next to a call the backend failed, the
\* Store still whole
StoreReadOnlyWitness ==
  /\ store = NumObjects
  /\ \E c, d \in Calls :
       /\ cancelled[c]
       /\ pulls[c] >= 1
       /\ pc[d] = "returned"
       /\ ret[d].tag = "Err"
       /\ ret[d].val = "Network"
       /\ calls[d] # <<>>

====
